---- MODULE Spec2Model ----
(***************************************************************************)
(* A model of eemeter's trace data model (eemeter/structures/trace.py) and *)
(* of the seasonal model-data pipeline                                     *)
(* (eemeter/modeling/models/seasonal.py).                                  *)
(*                                                                         *)
(* Python objects are modelled by reference: a pandas DataFrame is a cell  *)
(* of the heap `tables`, and an EnergyTrace holds the id of the cell its   *)
(* `data` attribute points to.  Numbers are exact rationals (num/den), so  *)
(* that the multiplier 0.001 is applied exactly.                           *)
(* A Python dict is a sequence of <<key, value>> pairs in insertion order. *)
(***************************************************************************)
EXTENDS Integers, Sequences, FiniteSets, TLC

VARIABLES
    tables,      \* heap of DataFrame objects, indexed by table id
    traces,      \* the EnergyTrace objects constructed so far
    last,        \* arguments and outcome of the last EnergyTrace(...) call
    tset,        \* the last EnergyTraceSet(...) call: arguments, outcome, object
    iter,        \* state of the generator returned by itertraces()
    model,       \* the SeasonalElasticNetCVModel instance
    call         \* the last call on the model: name, argument, outcome

vars == <<tables, traces, last, tset, iter, model, call>>
traceVars == <<tables, traces, last>>
setVars == <<tset, iter>>
modelVars == <<model, call>>

\* Python's None where an object is expected, and as a unit string; NaN.
None == [none |-> TRUE]
NoUnit == "None"
NaN == [nan |-> TRUE]

(***************************************************************************)
(* Bounds of the model.                                                    *)
(***************************************************************************)
MaxRows == 2        \* rows of a caller-supplied table
MaxTraces == 2      \* EnergyTrace objects alive at once

(***************************************************************************)
(* Exact arithmetic on the `value` column.                                 *)
(***************************************************************************)
RECURSIVE GCD(_, _)
GCD(a, b) == IF b = 0 THEN a ELSE GCD(b, a % b)

Rat(n, d) == LET g == GCD(IF n < 0 THEN -n ELSE n, d)
             IN  IF n = 0 THEN [num |-> 0, den |-> 1]
                 ELSE [num |-> n \div g, den |-> d \div g]

\* x * y of pandas/numpy on one cell: NaN propagates.
Times(x, y) == IF x = NaN \/ y = NaN THEN NaN
               ELSE Rat(x.num * y.num, x.den * y.den)

One == Rat(1, 1)
Milli == Rat(1, 1000)

(***************************************************************************)
(* EnergyTrace.UNIT_NORMALIZATION and EnergyTrace.INTERPRETATIONS.         *)
(***************************************************************************)
UnitEntry(t, m) == [target_unit |-> t, multiplier |-> m]

UNIT_NORMALIZATION ==
    [u \in {"kwh", "kWh", "KWH", "therm", "therms", "thm",
            "THERM", "THERMS", "THM", "wh", "Wh", "WH"} |->
        CASE u \in {"kwh", "kWh", "KWH"} -> UnitEntry("KWH", One)
          [] u \in {"therm", "therms", "thm", "THERM", "THERMS", "THM"}
                -> UnitEntry("THERM", One)
          [] u \in {"wh", "Wh", "WH"} -> UnitEntry("KWH", Milli)]

INTERPRETATIONS ==
    {"ELECTRICITY_CONSUMPTION_SUPPLIED",
     "ELECTRICITY_CONSUMPTION_TOTAL",
     "ELECTRICITY_CONSUMPTION_NET",
     "ELECTRICITY_ON_SITE_GENERATION_TOTAL",
     "ELECTRICITY_ON_SITE_GENERATION_CONSUMED",
     "ELECTRICITY_ON_SITE_GENERATION_UNCONSUMED",
     "NATURAL_GAS_CONSUMPTION_SUPPLIED"}

(***************************************************************************)
(* Outcomes.  Every failure is a Python ValueError; the kinds below are    *)
(* the raise statements, named as the specification's taxonomy names them. *)
(***************************************************************************)
Ok == "ok"
InvalidInterpretationError == "InvalidInterpretationError"
UnsupportedUnitError == "UnsupportedUnitError"
InvalidConstructionArgumentsError == "InvalidConstructionArgumentsError"
MalformedTableError == "MalformedTableError"

\* EnergyTrace._set_interpretation: the outcome, and the attribute it sets.
set_interpretation(interpretation) ==
    IF interpretation \in INTERPRETATIONS
    THEN [result |-> Ok, interpretation |-> interpretation]
    ELSE [result |-> InvalidInterpretationError, interpretation |-> "unset"]

\* set_unit with a lookup that folds the case of the first letter.
set_unit_casefold(unit) ==
    LET folded == CASE unit = "Kwh" -> "kwh" [] unit = "Therm" -> "therm"
                    [] OTHER -> unit
    IN  IF folded \in DOMAIN UNIT_NORMALIZATION
        THEN [result |-> Ok,
              unit |-> UNIT_NORMALIZATION[folded].target_unit,
              unit_multiplier |-> UNIT_NORMALIZATION[folded].multiplier]
        ELSE [result |-> UnsupportedUnitError, unit |-> NoUnit,
              unit_multiplier |-> None]

\* EnergyTrace._set_unit: the outcome, and the two attributes it sets.
set_unit(unit) ==
    IF unit \in DOMAIN UNIT_NORMALIZATION
    THEN [result |-> Ok,
          unit |-> UNIT_NORMALIZATION[unit].target_unit,
          unit_multiplier |-> UNIT_NORMALIZATION[unit].multiplier]
    ELSE [result |-> UnsupportedUnitError, unit |-> NoUnit, unit_multiplier |-> None]

(***************************************************************************)
(* DataFrames.                                                             *)
(***************************************************************************)
Row(v, e) == [value |-> v, estimated |-> e]

Table(ix, cols, rows) == [datetime_index |-> ix, columns |-> cols, rows |-> rows]

ExpectedColumns == <<"value", "estimated">>

\* ScaledColumn without the multiplication.
ScaledColumn_unscaled(rows, m) == [i \in 1..Len(rows) |-> rows[i].value]

\* data.value * self.unit_multiplier: a new column, row by row.
ScaledColumn(rows, m) == [i \in 1..Len(rows) |-> Times(rows[i].value, m)]

\* self.data.value = column: the `value` column of the table is replaced in
\* place, every other column and the row order are left alone.
SetValueColumn(t, column) ==
    [t EXCEPT !.rows = [i \in 1..Len(t.rows) |->
                            [t.rows[i] EXCEPT !.value = column[i]]]]

\* A reference to the heap cell `id`.
Ref(id) == [id |-> id]

\* serializer.to_dataframe(records): the adapter builds a new table with the
\* columns [value, estimated] from the records.
to_dataframe(records) == Table(TRUE, ExpectedColumns, records.rows)

(***************************************************************************)
(* EnergyTrace.__init__ (with _set_interpretation, _set_data, _set_unit).  *)
(* `data` is a reference to a heap cell, or None.  The record returned     *)
(* gives the outcome, the object built, the heap after the call and the    *)
(* number of adapter calls made.                                           *)
(***************************************************************************)
Placeholder(interp) ==
    [interpretation |-> interp, data |-> None, unit |-> NoUnit,
     unit_multiplier |-> None, placeholder |-> TRUE]

Failure(kind, heap, ncalls) ==
    [result |-> kind, trace |-> None, heap |-> heap, to_dataframe_calls |-> ncalls]

\* lines 244-246, with self.unit and self.unit_multiplier set by _set_unit.
\* self.data is the object `data` itself, not a copy of it.
StoreData(interp, u, id, heap, ncalls) ==
    [result |-> Ok,
     trace |-> [interpretation |-> interp, data |-> Ref(id), unit |-> u.unit,
                unit_multiplier |-> u.unit_multiplier, placeholder |-> FALSE],
     heap |-> [heap EXCEPT ![id] =
                 SetValueColumn(heap[id],
                                ScaledColumn(heap[id].rows, u.unit_multiplier))],
     to_dataframe_calls |-> ncalls]

\* set_data whose placeholder branch does not look at the serializer.
set_data_lenient(interp, data, records, unit, placeholder, serializer, heap) ==
    IF placeholder /\ data = None /\ records = None
    THEN [result |-> Ok, trace |-> Placeholder(interp), heap |-> heap,
          to_dataframe_calls |-> 0]
    ELSE IF records # None /\ serializer # None /\ data = None /\ ~placeholder
    THEN LET u == set_unit(unit) IN
         IF u.result # Ok THEN Failure(u.result, heap, 0)
         ELSE StoreData(interp, u, Len(heap) + 1,
                        Append(heap, to_dataframe(records)), 1)
    ELSE IF data # None /\ records = None /\ serializer = None /\ ~placeholder
    THEN LET u == set_unit(unit) IN
         IF u.result # Ok THEN Failure(u.result, heap, 0)
         ELSE IF ~heap[data.id].datetime_index
         THEN Failure(MalformedTableError, heap, 0)
         ELSE IF heap[data.id].columns # ExpectedColumns
         THEN Failure(MalformedTableError, heap, 0)
         ELSE StoreData(interp, u, data.id, heap, 0)
    ELSE Failure(InvalidConstructionArgumentsError, heap, 0)

\* set_data that runs the adapter before it checks the unit.
set_data_eager(interp, data, records, unit, placeholder, serializer, heap) ==
    IF placeholder /\ data = None /\ records = None /\ serializer = None
    THEN [result |-> Ok, trace |-> Placeholder(interp), heap |-> heap,
          to_dataframe_calls |-> 0]
    ELSE IF records # None /\ serializer # None /\ data = None /\ ~placeholder
    THEN LET u == set_unit(unit) IN
         IF u.result # Ok THEN Failure(u.result, heap, 1)
         ELSE StoreData(interp, u, Len(heap) + 1,
                        Append(heap, to_dataframe(records)), 1)
    ELSE IF data # None /\ records = None /\ serializer = None /\ ~placeholder
    THEN LET u == set_unit(unit) IN
         IF u.result # Ok THEN Failure(u.result, heap, 0)
         ELSE IF ~heap[data.id].datetime_index
         THEN Failure(MalformedTableError, heap, 0)
         ELSE IF heap[data.id].columns # ExpectedColumns
         THEN Failure(MalformedTableError, heap, 0)
         ELSE StoreData(interp, u, data.id, heap, 0)
    ELSE Failure(InvalidConstructionArgumentsError, heap, 0)

\* EnergyTrace._set_data.
set_data(interp, data, records, unit, placeholder, serializer, heap) ==
    IF placeholder /\ data = None /\ records = None /\ serializer = None
    THEN [result |-> Ok, trace |-> Placeholder(interp), heap |-> heap,
          to_dataframe_calls |-> 0]
    ELSE IF records # None /\ serializer # None /\ data = None /\ ~placeholder
    THEN LET u == set_unit(unit) IN
         IF u.result # Ok THEN Failure(u.result, heap, 0)
         ELSE StoreData(interp, u, Len(heap) + 1,
                        Append(heap, to_dataframe(records)), 1)
    ELSE IF data # None /\ records = None /\ serializer = None /\ ~placeholder
    THEN LET u == set_unit(unit) IN
         IF u.result # Ok THEN Failure(u.result, heap, 0)
         ELSE IF ~heap[data.id].datetime_index
         THEN Failure(MalformedTableError, heap, 0)
         ELSE IF heap[data.id].columns # ExpectedColumns
         THEN Failure(MalformedTableError, heap, 0)
         ELSE StoreData(interp, u, data.id, heap, 0)
    ELSE Failure(InvalidConstructionArgumentsError, heap, 0)

EnergyTrace_init(interpretation, data, records, unit, placeholder, serializer, heap) ==
    LET i == set_interpretation(interpretation) IN
    IF i.result # Ok THEN Failure(i.result, heap, 0)
    ELSE set_data(i.interpretation, data, records, unit, placeholder,
                  serializer, heap)

(***************************************************************************)
(* Inputs of the EnergyTrace constructor.                                  *)
(***************************************************************************)
RECURSIVE SeqsUpTo(_, _)
SeqsUpTo(S, n) ==
    IF n = 0 THEN {<<>>}
    ELSE LET shorter == SeqsUpTo(S, n - 1)
         IN  shorter \cup {Append(q, x) : q \in {t \in shorter : Len(t) = n - 1},
                                          x \in S}

RowInputs == {Row(Rat(1500, 1), FALSE), Row(NaN, TRUE)}

\* The caller's table: well formed, or without a DatetimeIndex, or with the
\* wrong columns.
TableInputs ==
    {Table(TRUE, ExpectedColumns, rows) : rows \in SeqsUpTo(RowInputs, MaxRows)}
    \cup {Table(FALSE, ExpectedColumns, <<Row(Rat(7, 1), FALSE)>>),
          Table(TRUE, <<"estimated", "value">>, <<Row(Rat(7, 1), FALSE)>>)}

TheSerializer == [name |-> "serializer"]
TheRecords == [rows |-> <<Row(Rat(2500, 1), TRUE), Row(NaN, FALSE)>>]

UnitInputs == DOMAIN UNIT_NORMALIZATION \cup {"Kwh", "Therm", NoUnit}
DataInputs == {None, Ref(1)}
RecordsInputs == {None, TheRecords}
SerializerInputs == {None, TheSerializer}

NoCall == [result |-> "none"]

\* EnergyTrace(interpretation, data, records, unit, placeholder, serializer),
\* called by the owner of the tables.  `given` is the table the values are
\* taken from, as it is when the call is made.
Construct(interpretation, data, records, unit, placeholder, serializer) ==
    /\ Len(traces) < MaxTraces
    /\ LET r == EnergyTrace_init(interpretation, data, records, unit,
                                 placeholder, serializer, tables)
       IN  /\ tables' = r.heap
           /\ traces' = IF r.result = Ok THEN Append(traces, r.trace) ELSE traces
           /\ last' = [interpretation |-> interpretation, data |-> data,
                       records |-> records, unit |-> unit,
                       placeholder |-> placeholder, serializer |-> serializer,
                       result |-> r.result,
                       to_dataframe_calls |-> r.to_dataframe_calls,
                       given |-> IF data # None THEN tables[data.id]
                                 ELSE IF records # None THEN to_dataframe(records)
                                 ELSE None]
    /\ UNCHANGED <<setVars, modelVars>>

\* The three shapes of caller table, one of each.
ShapeInputs ==
    {Table(TRUE, ExpectedColumns, <<Row(Rat(1500, 1), FALSE), Row(NaN, TRUE)>>),
     Table(FALSE, ExpectedColumns, <<Row(Rat(7, 1), FALSE)>>),
     Table(TRUE, <<"estimated", "value">>, <<Row(Rat(7, 1), FALSE)>>)}

InitOther ==
    /\ tset = NoCall
    /\ iter = NoCall
    /\ model = NoCall
    /\ call = NoCall

\* Every argument combination and every unit string, on one table of each
\* shape.
InitTrace ==
    /\ tables \in {<<t>> : t \in ShapeInputs}
    /\ traces = <<>>
    /\ last = NoCall
    /\ InitOther

NextTrace ==
    \E d \in DataInputs, r \in RecordsInputs, u \in UnitInputs, p \in BOOLEAN,
       s \in SerializerInputs :
        Construct("ELECTRICITY_CONSUMPTION_SUPPLIED", d, r, u, p, s)

SpecTrace == InitTrace /\ [][NextTrace]_vars

\* Every table content, with one unit string of each normalization.
ScaleUnitInputs == {"kWh", "therms", "Wh"}

InitScale ==
    /\ tables \in {<<t>> : t \in TableInputs}
    /\ traces = <<>>
    /\ last = NoCall
    /\ InitOther

NextScale ==
    \/ \E d \in DataInputs, r \in RecordsInputs, u \in ScaleUnitInputs,
          p \in BOOLEAN, s \in SerializerInputs :
           Construct("NATURAL_GAS_CONSUMPTION_SUPPLIED", d, r, u, p, s)
    \/ \E d \in DataInputs, u \in ScaleUnitInputs :
           Construct("WATER_CONSUMPTION", d, None, u, FALSE, None)
    \/ \E i \in {"NATURAL_GAS_CONSUMPTION_SUPPLIED", "WATER_CONSUMPTION"},
          u \in {"Wh", "Kwh"} :
           Construct(i, None, TheRecords, u, FALSE, TheSerializer)

SpecScale == InitScale /\ [][NextScale]_vars

(***************************************************************************)
(* EnergyTraceSet.  A list argument is [list |-> sequence], a dict         *)
(* argument [dict |-> sequence of <<label, trace>> pairs]; traces are      *)
(* references to EnergyTrace objects, which the set never looks into.      *)
(***************************************************************************)
MaxSetLen == 2      \* length of the trace and label lists, all contents
MaxLongLen == 11    \* length of the longer trace lists, one content each

LabelCountMismatchError == "LabelCountMismatchError"
DuplicateLabelError == "DuplicateLabelError"

Digit(d) == CASE d = 0 -> "0" [] d = 1 -> "1" [] d = 2 -> "2" [] d = 3 -> "3"
              [] d = 4 -> "4" [] d = 5 -> "5" [] d = 6 -> "6" [] d = 7 -> "7"
              [] d = 8 -> "8" [] d = 9 -> "9"

\* str that keeps the last digit only.
str_lastdigit(i) == Digit(i % 10)

\* str(i) for an int i >= 0: its decimal digits.
RECURSIVE str(_)
str(i) == IF i < 10 THEN Digit(i) ELSE str(i \div 10) \o Digit(i % 10)

\* [str(i) for i, _ in enumerate(traces)]
generate_default_labels(ts) == [k \in 1..Len(ts) |-> str(k - 1)]

\* validate_lengths / validate_uniqueness: the outcome.
validate_lengths(ts, labels) ==
    IF Len(ts) # Len(labels) THEN LabelCountMismatchError ELSE Ok

\* len(set(labels))
DistinctCount(labels) == Cardinality({labels[k] : k \in 1..Len(labels)})

\* validate_uniqueness that compares the list with itself.
validate_uniqueness_self(labels) ==
    IF Len(labels) # Len(labels) THEN DuplicateLabelError ELSE Ok

validate_uniqueness(labels) ==
    IF Len(labels) # DistinctCount(labels) THEN DuplicateLabelError ELSE Ok

\* d[key] = value on a dict: a key already there keeps its place.
DictSet(d, key, value) ==
    IF \E k \in 1..Len(d) : d[k][1] = key
    THEN [k \in 1..Len(d) |-> IF d[k][1] = key THEN <<key, value>> ELSE d[k]]
    ELSE Append(d, <<key, value>>)

\* {label: trace for label, trace in zip(labels, traces)}; zip stops at the
\* shorter of the two.
RECURSIVE DictFromZip(_, _, _)
DictFromZip(labels, ts, n) ==
    IF n = 0 THEN <<>>
    ELSE DictSet(DictFromZip(labels, ts, n - 1), labels[n], ts[n])

Min(a, b) == IF a < b THEN a ELSE b

\* EnergyTraceSet.__init__ whose dict branch validates a supplied label list
\* against the dict before it warns.
EnergyTraceSet_init_validating(given, labels) ==
    IF "dict" \in DOMAIN given
    THEN IF labels # None /\ validate_lengths(given.dict, labels.list) # Ok
         THEN [result |-> LabelCountMismatchError, traces |-> <<>>, warnings |-> 0]
         ELSE IF labels # None /\ validate_uniqueness(labels.list) # Ok
         THEN [result |-> DuplicateLabelError, traces |-> <<>>, warnings |-> 0]
         ELSE [result |-> Ok, traces |-> given.dict,
               warnings |-> IF labels # None THEN 1 ELSE 0]
    ELSE LET ts == given.list
             ls == IF labels = None THEN generate_default_labels(ts)
                   ELSE labels.list
         IN  IF validate_lengths(ts, ls) # Ok
             THEN [result |-> validate_lengths(ts, ls), traces |-> <<>>,
                   warnings |-> 0]
             ELSE IF validate_uniqueness(ls) # Ok
             THEN [result |-> validate_uniqueness(ls), traces |-> <<>>,
                   warnings |-> 0]
             ELSE [result |-> Ok,
                   traces |-> DictFromZip(ls, ts, Min(Len(ls), Len(ts))),
                   warnings |-> 0]

\* EnergyTraceSet.__init__: the outcome, self.traces and the number of
\* warnings.warn calls.
EnergyTraceSet_init(given, labels) ==
    IF "dict" \in DOMAIN given
    THEN [result |-> Ok, traces |-> given.dict,
          warnings |-> IF labels # None THEN 1 ELSE 0]
    ELSE LET ts == given.list
             ls == IF labels = None THEN generate_default_labels(ts)
                   ELSE labels.list
         IN  IF validate_lengths(ts, ls) # Ok
             THEN [result |-> validate_lengths(ts, ls), traces |-> <<>>,
                   warnings |-> 0]
             ELSE IF validate_uniqueness(ls) # Ok
             THEN [result |-> validate_uniqueness(ls), traces |-> <<>>,
                   warnings |-> 0]
             ELSE [result |-> Ok,
                   traces |-> DictFromZip(ls, ts, Min(Len(ls), Len(ts))),
                   warnings |-> 0]

\* Inputs.
TraceObjects == {[trace |-> 1], [trace |-> 2]}
LabelStrings == {"a", "b"}

\* Longer lists, of alternating objects.
LongLists ==
    {[k \in 1..n |-> [trace |-> 1 + (k % 2)]] : n \in (MaxSetLen + 1)..MaxLongLen}

TracesInputs ==
    {[list |-> q] : q \in SeqsUpTo(TraceObjects, MaxSetLen) \cup LongLists}
    \cup {[dict |-> <<>>],
          [dict |-> <<<<"a", [trace |-> 1]>>>>],
          [dict |-> <<<<"b", [trace |-> 2]>>, <<"a", [trace |-> 1]>>>>]}

LabelsInputs == {None} \cup {[list |-> q] : q \in SeqsUpTo(LabelStrings, MaxSetLen)}

\* EnergyTraceSet(traces, labels).  The generator of an earlier set is dropped
\* with it.
NewTraceSet(ts, ls) ==
    /\ LET r == EnergyTraceSet_init(ts, ls)
       IN  tset' = [traces_arg |-> ts, labels_arg |-> ls, result |-> r.result,
                    traces |-> r.traces, warnings |-> r.warnings]
    /\ iter' = NoCall
    /\ UNCHANGED <<traceVars, modelVars>>

\* g = trace_set.itertraces(): nothing runs until the first next(g).
Itertraces ==
    /\ tset.result = Ok
    /\ iter' = [result |-> "running", pos |-> 0, yielded |-> <<>>]
    /\ UNCHANGED <<tset, traceVars, modelVars>>

\* next(g): the next (label, trace) pair of self.traces.items(), or the end
\* of the iteration.
IterNext ==
    /\ iter.result = "running"
    /\ iter' = IF iter.pos < Len(tset.traces)
               THEN [iter EXCEPT !.pos = @ + 1,
                                 !.yielded = Append(@, tset.traces[iter.pos + 1])]
               ELSE [iter EXCEPT !.result = "exhausted"]
    /\ UNCHANGED <<tset, traceVars, modelVars>>

InitSet ==
    /\ tables = <<>>
    /\ traces = <<>>
    /\ last = NoCall
    /\ InitOther

NextSet ==
    \/ \E ts \in TracesInputs, ls \in LabelsInputs : NewTraceSet(ts, ls)
    \/ Itertraces
    \/ IterNext

SpecSet == InitSet /\ [][NextSet]_vars

(***************************************************************************)
(* SeasonalElasticNetCVModel.  A timestamp is the number of its day in     *)
(* 2015 (1 is Thursday 1 January); a text that is sliced is a sequence of  *)
(* characters.                                                             *)
(***************************************************************************)
MaxSamples == 2     \* rows of an input table

EmptyModelDataError == "EmptyModelDataError"
NameError == "NameError"

Zero == Rat(0, 1)

Plus(x, y) == Rat(x.num * y.den + y.num * x.den, x.den * y.den)

\* x - y and np.maximum(x, 0.) on one cell: NaN propagates.
Minus(x, y) == IF x = NaN \/ y = NaN THEN NaN
               ELSE Rat(x.num * y.den - y.num * x.den, x.den * y.den)

Max0(x) == IF x = NaN THEN NaN ELSE IF x.num > 0 THEN x ELSE Zero

\* The values of a column that are not NaN.
NotNaN(column) == LET Keep(x) == x # NaN IN SelectSeq(column, Keep)

RECURSIVE SumSeq(_)
SumSeq(q) == IF q = <<>> THEN Zero ELSE Plus(q[1], SumSeq(Tail(q)))

\* np.sum over one day's energies: NaN are skipped; what a day without any
\* value gives is the pandas build's choice, `empty_sum` (NaN or 0).
DaySum(column, empty_sum) ==
    IF NotNaN(column) = <<>> THEN empty_sum ELSE SumSeq(NotNaN(column))

\* np.mean over one day's temperatures: NaN are skipped, no value gives NaN.
DayMean(column) ==
    LET xs == NotNaN(column)
        total == SumSeq(xs)
    IN  IF xs = <<>> THEN NaN ELSE Rat(total.num, total.den * Len(xs))

\* The rows of `input_data` that fall in day d.
DayRows(input_data, d) == LET In(r) == r.day = d IN SelectSeq(input_data, In)

Column(rows, name) == [k \in 1..Len(rows) |-> rows[k][name]]

\* input_data.resample(Day()): one bucket per day from the first to the last
\* timestamp of the index, days without rows included.
ResampleDays(input_data) ==
    IF input_data = <<>> THEN <<>>
    ELSE [k \in 1..(input_data[Len(input_data)].day - input_data[1].day + 1) |->
             input_data[1].day + k - 1]

\* .agg({'energy': np.sum, 'tempF': np.mean})
ResampleEnergyTemp(input_data, empty_sum) ==
    LET days == ResampleDays(input_data)
    IN  [k \in 1..Len(days) |->
           [day |-> days[k],
            energy |-> DaySum(Column(DayRows(input_data, days[k]), "energy"),
                              empty_sum),
            tempF |-> DayMean(Column(DayRows(input_data, days[k]), "tempF"))]]

\* dropna that drops a row only for a missing energy.
dropna_energy(rows) ==
    LET Keep(r) == r.energy # NaN IN SelectSeq(rows, Keep)

\* model_data.dropna(): rows with a NaN in any column are dropped.
dropna(rows) ==
    LET Keep(r) == r.energy # NaN /\ r.tempF # NaN IN SelectSeq(rows, Keep)

\* The degree-day columns, with the heating difference taken the wrong way
\* round.
DegreeDays_swapped(m, row) ==
    [CDD |-> Max0(Minus(row.tempF, m.cooling_base_temp)),
     HDD |-> Max0(Minus(row.tempF, m.heating_base_temp))]

\* np.maximum(tempF - cooling_base_temp, 0.) and
\* np.maximum(heating_base_temp - tempF, 0.) on one row.
DegreeDays(m, row) ==
    [CDD |-> Max0(Minus(row.tempF, m.cooling_base_temp)),
     HDD |-> Max0(Minus(m.heating_base_temp, row.tempF))]

\* _model_data_from_input_data: the outcome, the table after the resampling
\* and the table returned.
model_data_from_input_data(m, input_data) ==
    LET resampled == ResampleEnergyTemp(input_data, m.empty_sum)
        model_data == dropna(resampled)
    IN  IF model_data = <<>>
        THEN [result |-> EmptyModelDataError, resampled |-> resampled,
              rows |-> <<>>]
        ELSE [result |-> Ok, resampled |-> resampled,
              rows |-> [k \in 1..Len(model_data) |->
                          [day |-> model_data[k].day,
                           energy |-> model_data[k].energy,
                           tempF |-> model_data[k].tempF,
                           CDD |-> DegreeDays(m, model_data[k]).CDD,
                           HDD |-> DegreeDays(m, model_data[k]).HDD]]]

\* DatetimeIndex.month and DatetimeIndex.weekday (Monday is 0) of a day of 2015.
MonthEnds == <<31, 59, 90, 120, 151, 181, 212, 243, 273, 304, 334, 365>>
Month(d) == CHOOSE mth \in 1..12 :
                /\ d <= MonthEnds[mth]
                /\ mth > 1 => d > MonthEnds[mth - 1]
Weekday(d) == (d + 2) % 7

\* Holiday names, as characters.
NoneName == <<"n", "o", "n", "e">>
ObservedSuffix == <<" ", "(", "O", "b", "s", "e", "r", "v", "e", "d", ")">>
FoundersDay ==
      <<"F", "o", "u", "n", "d", "e", "r", "s", " ", "D", "a", "y">>
NewYearsDay ==
      <<"N", "e", "w", " ", "Y", "e", "a", "r", "'", "s", " ", "D",
        "a", "y">>
MartinLutherKingDay ==
      <<"M", "a", "r", "t", "i", "n", " ", "L", "u", "t", "h", "e",
        "r", " ", "K", "i", "n", "g", ",", " ", "J", "r", ".", " ",
        "D", "a", "y">>
WashingtonsBirthday ==
      <<"W", "a", "s", "h", "i", "n", "g", "t", "o", "n", "'", "s",
        " ", "B", "i", "r", "t", "h", "d", "a", "y">>
MemorialDay ==
      <<"M", "e", "m", "o", "r", "i", "a", "l", " ", "D", "a", "y">>
IndependenceDayObserved ==
      <<"I", "n", "d", "e", "p", "e", "n", "d", "e", "n", "c", "e",
        " ", "D", "a", "y", " ", "(", "O", "b", "s", "e", "r", "v",
        "e", "d", ")">>
IndependenceDay ==
      <<"I", "n", "d", "e", "p", "e", "n", "d", "e", "n", "c", "e",
        " ", "D", "a", "y">>
LaborDay ==
      <<"L", "a", "b", "o", "r", " ", "D", "a", "y">>
ColumbusDay ==
      <<"C", "o", "l", "u", "m", "b", "u", "s", " ", "D", "a", "y">>
VeteransDay ==
      <<"V", "e", "t", "e", "r", "a", "n", "s", " ", "D", "a", "y">>
Thanksgiving ==
      <<"T", "h", "a", "n", "k", "s", "g", "i", "v", "i", "n", "g">>
ChristmasDay ==
      <<"C", "h", "r", "i", "s", "t", "m", "a", "s", " ", "D", "a",
        "y">>

\* holidays.UnitedStates() over 2015: the days it knows, and their names.
UnitedStatesDays == {1, 19, 47, 145, 184, 185, 250, 285, 315, 330, 359}
UnitedStates ==
    [d \in UnitedStatesDays |->
       CASE d = 1 -> NewYearsDay
      [] d = 19 -> MartinLutherKingDay
      [] d = 47 -> WashingtonsBirthday
      [] d = 145 -> MemorialDay
      [] d = 184 -> IndependenceDayObserved
      [] d = 185 -> IndependenceDay
      [] d = 250 -> LaborDay
      [] d = 285 -> ColumbusDay
      [] d = 315 -> VeteransDay
      [] d = 330 -> Thanksgiving
      [] d = 359 -> ChristmasDay]

\* A caller's calendar: one holiday, and the day it is observed.
CustomCalendar ==
    [d \in {5, 6} |-> IF d = 5 THEN FoundersDay \o ObservedSuffix
                      ELSE FoundersDay]

\* holidays_raw.get(dt, "none")
CalendarGet(holidays_raw, dt) ==
    IF dt \in DOMAIN holidays_raw THEN holidays_raw[dt] ELSE NoneName

\* raw_name.endswith(suffix)
EndsWith(raw_name, suffix) ==
    /\ Len(raw_name) >= Len(suffix)
    /\ SubSeq(raw_name, Len(raw_name) - Len(suffix) + 1, Len(raw_name)) = suffix

ObservedSuffixLen == 11

\* clean_holiday_name, the closure of _holidays_indexed.
clean_holiday_name(holidays_raw, dt) ==
    LET raw_name == CalendarGet(holidays_raw, dt)
    IN  IF EndsWith(raw_name, ObservedSuffix)
        THEN SubSeq(raw_name, 1, Len(raw_name) - ObservedSuffixLen)
        ELSE raw_name

\* _holidays_indexed is a @staticmethod: its only parameter is dt_index, and
\* the module has no global `self`.  Its first statement reads
\* self.custom_holidays, which raises NameError before any name is looked up.
holidays_indexed(dt_index) == [result |-> NameError, names |-> <<>>]

\* len(np.unique(...)) of the months, the weekdays and the holiday names.
DistinctMonths(index) == Cardinality({Month(index[k]) : k \in 1..Len(index)})
DistinctWeekdays(index) == Cardinality({Weekday(index[k]) : k \in 1..Len(index)})
DistinctNames(names) == Cardinality({names[k] : k \in 1..Len(names)})

MonthLevels == 12
WeekdayLevels == 7
HolidayLevels == 11

\* self.base_formula, set by ElasticNetCVBaseModel.
base_formula == "energy ~ 1 + CDD + HDD"

MonthTerms ==
    " + CDD * C(tempF.index.month)" \o " + HDD * C(tempF.index.month)"
    \o " + C(tempF.index.month)"
WeekdayTerms ==
    " + (CDD) * C(tempF.index.weekday)" \o " + (HDD) * C(tempF.index.weekday)"
    \o " + C(tempF.index.weekday)"
HolidayTerms == " + C(holiday_name)"

\* _patsy_formula: the outcome, the formula returned and the holiday_name
\* column attached to model_data (None if none is).
patsy_formula(m, index) ==
    LET f0 == m.base_formula
        f1 == IF DistinctMonths(index) >= MonthLevels
              THEN f0 \o MonthTerms ELSE f0
        f2 == IF DistinctWeekdays(index) >= WeekdayLevels
              THEN f1 \o WeekdayTerms ELSE f1
        holiday_names == holidays_indexed(index)
    IN  IF holiday_names.result # Ok
        THEN [result |-> holiday_names.result, formula |-> "",
              holiday_name |-> None]
        ELSE IF DistinctNames(holiday_names.names) = HolidayLevels
        THEN [result |-> Ok, formula |-> f2 \o HolidayTerms,
              holiday_name |-> [names |-> holidays_indexed(index).names]]
        ELSE [result |-> Ok, formula |-> f2, holiday_name |-> None]

\* .agg({'tempF': np.mean}) of the fixture builder.
ResampleTemp(fixture_data) ==
    LET days == ResampleDays(fixture_data)
    IN  [k \in 1..Len(days) |->
           [day |-> days[k],
            tempF |-> DayMean(Column(DayRows(fixture_data, days[k]), "tempF"))]]

\* _model_data_from_demand_fixture_data: the outcome and the table returned.
model_data_from_demand_fixture_data(m, demand_fixture_data) ==
    LET model_data == ResampleTemp(demand_fixture_data)
        with_dd == [k \in 1..Len(model_data) |->
                      [day |-> model_data[k].day,
                       tempF |-> model_data[k].tempF,
                       CDD |-> DegreeDays(m, model_data[k]).CDD,
                       HDD |-> DegreeDays(m, model_data[k]).HDD]]
        holiday_names == holidays_indexed(Column(model_data, "day"))
    IN  IF holiday_names.result # Ok
        THEN [result |-> holiday_names.result, rows |-> <<>>]
        ELSE [result |-> Ok,
              rows |-> [k \in 1..Len(with_dd) |->
                          [day |-> with_dd[k].day, tempF |-> with_dd[k].tempF,
                           CDD |-> with_dd[k].CDD, HDD |-> with_dd[k].HDD,
                           holiday_name |-> holiday_names.names[k]]]]

\* Inputs.  Samples of an input table: (day, energy, tempF).
Sample(d, e, t) == [day |-> d, energy |-> e, tempF |-> t]
DayInputs == {1, 3}
ReadingInputs == {<<Rat(2, 1), Rat(70, 1)>>, <<Rat(3, 1), Rat(60, 1)>>,
                  <<NaN, Rat(60, 1)>>, <<Rat(2, 1), NaN>>}
SampleInputs == {Sample(d, r[1], r[2]) : d \in DayInputs, r \in ReadingInputs}

\* Input tables: a DatetimeIndex in time order.
InputDataInputs ==
    {q \in SeqsUpTo(SampleInputs, MaxSamples) :
        \A k \in 1..(Len(q) - 1) : q[k].day <= q[k + 1].day}

\* Daily indexes: every `step`-th day from `first` to `final`.
Stride(first, final, step) ==
    [k \in 1..((final - first) \div step + 1) |-> first + (k - 1) * step]
Workdays(first, final) ==
    LET Keep(d) == Weekday(d) < 5 IN SelectSeq(Stride(first, final, 1), Keep)

IndexInputs ==
    {Stride(1, 365, 1), Stride(1, 334, 1), Stride(1, 365, 7), Stride(184, 186, 1),
     Workdays(1, 181), Stride(4, 6, 1)}

\* SeasonalElasticNetCVModel(cooling_base_temp, heating_base_temp,
\* custom_holidays=...); `empty_sum` is np.sum over no value in the pandas
\* build in use.
DefaultBaseTemp == 65

NewModel(cooling, heating, custom, empty_sum) ==
    [result |-> Ok, cooling_base_temp |-> Rat(cooling, 1),
     heating_base_temp |-> Rat(heating, 1), custom_holidays |-> custom,
     base_formula |-> base_formula, empty_sum |-> empty_sum]

ModelInputs ==
    {NewModel(DefaultBaseTemp, DefaultBaseTemp, None, NaN),
     NewModel(DefaultBaseTemp, DefaultBaseTemp, [calendar |-> CustomCalendar], Zero),
     NewModel(68, 62, None, Zero),
     NewModel(62, 68, [calendar |-> CustomCalendar], NaN)}

\* model._model_data_from_input_data(input_data)
ModelDataFromInputData(input_data) ==
    /\ LET r == model_data_from_input_data(model, input_data)
       IN  call' = [name |-> "model_data_from_input_data", arg |-> input_data,
                    result |-> r.result, resampled |-> r.resampled,
                    rows |-> r.rows]
    /\ UNCHANGED <<model, traceVars, setVars>>

\* model._patsy_formula(model_data), for a model_data with the index `index`
PatsyFormula(index) ==
    /\ LET r == patsy_formula(model, index)
       IN  call' = [name |-> "patsy_formula", arg |-> index, result |-> r.result,
                    formula |-> r.formula, holiday_name |-> r.holiday_name]
    /\ UNCHANGED <<model, traceVars, setVars>>

\* model._holidays_indexed(dt_index)
HolidaysIndexed(dt_index) ==
    /\ LET r == holidays_indexed(dt_index)
       IN  call' = [name |-> "holidays_indexed", arg |-> dt_index,
                    result |-> r.result, names |-> r.names]
    /\ UNCHANGED <<model, traceVars, setVars>>

\* model._model_data_from_demand_fixture_data(demand_fixture_data)
ModelDataFromDemandFixtureData(demand_fixture_data) ==
    /\ LET r == model_data_from_demand_fixture_data(model, demand_fixture_data)
       IN  call' = [name |-> "model_data_from_demand_fixture_data",
                    arg |-> demand_fixture_data, result |-> r.result,
                    rows |-> r.rows]
    /\ UNCHANGED <<model, traceVars, setVars>>

InitModel ==
    /\ tables = <<>>
    /\ traces = <<>>
    /\ last = NoCall
    /\ tset = NoCall
    /\ iter = NoCall
    /\ model \in ModelInputs
    /\ call = NoCall

NextModel ==
    \/ \E input_data \in InputDataInputs : ModelDataFromInputData(input_data)
    \/ \E index \in IndexInputs : PatsyFormula(index)
    \/ \E index \in IndexInputs : HolidaysIndexed(index)
    \/ \E input_data \in InputDataInputs :
          ModelDataFromDemandFixtureData(input_data)

SpecModel == InitModel /\ [][NextModel]_vars

(***************************************************************************)
(* Properties of EnergyTrace construction.                                 *)
(***************************************************************************)
Called(l) == l.result # "none"

PlaceholderArgs(l) ==
    l.placeholder /\ l.data = None /\ l.records = None /\ l.serializer = None
RecordsArgs(l) ==
    ~l.placeholder /\ l.data = None /\ l.records # None /\ l.serializer # None
TableArgs(l) ==
    ~l.placeholder /\ l.data # None /\ l.records = None /\ l.serializer = None

KwhUnits == {"kwh", "kWh", "KWH"}
ThermUnits == {"therm", "therms", "thm", "THERM", "THERMS", "THM"}
WhUnits == {"wh", "Wh", "WH"}
TableUnits == KwhUnits \cup ThermUnits \cup WhUnits

\* The rows a trace holds, in the heap `heap`.
StoredRows(t, heap) == heap[t.data.id].rows

Newest == traces[Len(traces)]

ClaimedMultiplier(u) == IF u \in WhUnits THEN Rat(1, 1000) ELSE Rat(1, 1)

\* C2: a trace built from a table with value column v and a raw unit of
\* multiplier m holds v * m in every row, in the same row order and with the
\* same `estimated` column, and is no placeholder.
C2_TableValuesScaled ==
    (Called(last) /\ last.result = Ok /\ TableArgs(last))
    => LET now == StoredRows(Newest, tables)
           v == last.given.rows
       IN  /\ ~Newest.placeholder
           /\ Len(now) = Len(v)
           /\ \A i \in 1..Len(v) :
                /\ now[i].value = Times(v[i].value, ClaimedMultiplier(last.unit))
                /\ now[i].estimated = v[i].estimated

\* A two-row table given in Wh has been stored, scaled by 0.001.
C2_Witness ==
    /\ Called(last) /\ last.result = Ok /\ TableArgs(last)
    /\ last.unit = "Wh"
    /\ last.given.rows = <<Row(Rat(1500, 1), FALSE), Row(NaN, TRUE)>>
    /\ StoredRows(Newest, tables) = <<Row(Rat(3, 2), FALSE), Row(NaN, TRUE)>>

\* C3: the values a constructed trace holds never change afterwards, whatever
\* is constructed next (in particular a further trace from the same table).
C3_StoredValuesNeverChange ==
    [][\A i \in 1..Len(traces) :
          ~traces[i].placeholder
          => StoredRows(traces[i], tables') = StoredRows(traces[i], tables)]_vars

\* C8: _set_unit is a case-sensitive lookup over the twelve keys: the kWh
\* spellings give (KWH, 1), the therm spellings (THERM, 1), the Wh spellings
\* (KWH, 0.001); any other string fails with the unsupported-unit error; a
\* trace that is no placeholder has the unit KWH or THERM.
C8_UnitNormalization ==
    /\ \A i \in 1..Len(traces) :
          ~traces[i].placeholder => traces[i].unit \in {"KWH", "THERM"}
    /\ (Called(last) /\ (TableArgs(last) \/ RecordsArgs(last)))
       => /\ last.unit \notin TableUnits <=> last.result = UnsupportedUnitError
          /\ (last.result = Ok /\ last.unit \in KwhUnits)
                => Newest.unit = "KWH" /\ Newest.unit_multiplier = Rat(1, 1)
          /\ (last.result = Ok /\ last.unit \in ThermUnits)
                => Newest.unit = "THERM" /\ Newest.unit_multiplier = Rat(1, 1)
          /\ (last.result = Ok /\ last.unit \in WhUnits)
                => Newest.unit = "KWH" /\ Newest.unit_multiplier = Rat(1, 1000)

\* A unit in another casing has been refused, next to a trace built in Wh.
C8_Witness ==
    /\ Called(last) /\ TableArgs(last)
    /\ last.unit = "Kwh" /\ last.result = UnsupportedUnitError
    /\ Len(traces) = 1 /\ traces[1].unit = "KWH"
    /\ traces[1].unit_multiplier = Rat(1, 1000)

\* C13 as stated: in every construction given records and a serializer (no
\* data, placeholder false) to_dataframe is called exactly once; in every
\* construction on the table path, the placeholder path or with an invalid
\* argument combination it is called zero times.
C13_AdapterCalledOnce ==
    Called(last)
    => last.to_dataframe_calls = (IF RecordsArgs(last) THEN 1 ELSE 0)

\* C13, amended: a construction given records and a serializer (no data,
\* placeholder false) with a valid interpretation and a valid unit calls
\* to_dataframe exactly once and stores the table it returns, scaled by the
\* unit multiplier; every other construction, those rejected for their
\* interpretation or unit included, calls it zero times.
C13_AdapterCalledOnceWhenAccepted ==
    Called(last)
    => IF /\ RecordsArgs(last)
          /\ last.interpretation \in INTERPRETATIONS
          /\ last.unit \in TableUnits
       THEN /\ last.to_dataframe_calls = 1
            /\ last.result = Ok
            /\ Newest.data = Ref(Len(tables))
            /\ LET now == StoredRows(Newest, tables)
                   given == last.records.rows
               IN  /\ Len(now) = Len(given)
                   /\ \A i \in 1..Len(given) :
                        /\ now[i].value = Times(given[i].value,
                                                ClaimedMultiplier(last.unit))
                        /\ now[i].estimated = given[i].estimated
       ELSE last.to_dataframe_calls = 0

\* Records given in Wh went through the adapter once and are stored, scaled,
\* in a table of their own.
C13_Witness ==
    /\ Called(last) /\ RecordsArgs(last) /\ last.unit = "Wh"
    /\ last.result = Ok /\ last.to_dataframe_calls = 1
    /\ Newest.data = Ref(2)
    /\ tables[2].rows = <<Row(Rat(5, 2), TRUE), Row(NaN, FALSE)>>

(***************************************************************************)
(* Properties of EnergyTraceSet.                                           *)
(***************************************************************************)
ListCall == Called(tset) /\ "list" \in DOMAIN tset.traces_arg

\* The trace a dict maps `label` to, as a set (empty if the key is absent).
Lookup(d, label) == {d[k][2] : k \in {j \in 1..Len(d) : d[j][1] = label}}

HasDuplicates(q) == \E i, j \in 1..Len(q) : i # j /\ q[i] = q[j]

\* C9: from a list of traces and an explicit label list: a label count that
\* differs from the trace count fails with the label-count-mismatch error
\* (duplicates or not); equal counts with a repeated label fail with the
\* duplicate-label error; otherwise labels[i] is mapped to traces[i] for
\* every i, one entry per supplied trace.
C9_ExplicitLabels ==
    (ListCall /\ tset.labels_arg # None)
    => LET ts == tset.traces_arg.list
           ls == tset.labels_arg.list
       IN  IF Len(ls) # Len(ts) THEN tset.result = LabelCountMismatchError
           ELSE IF HasDuplicates(ls) THEN tset.result = DuplicateLabelError
           ELSE /\ tset.result = Ok
                /\ Len(tset.traces) = Len(ts)
                /\ \A i \in 1..Len(ts) : Lookup(tset.traces, ls[i]) = {ts[i]}

\* Two traces under a repeated label have been refused as duplicates.
C9_Witness ==
    /\ ListCall /\ tset.labels_arg # None
    /\ tset.traces_arg.list = <<[trace |-> 1], [trace |-> 2]>>
    /\ tset.labels_arg.list = <<"a", "a">>
    /\ tset.result = DuplicateLabelError

\* The decimal numerals, written out.
Numeral == <<"0", "1", "2", "3", "4", "5", "6", "7", "8", "9", "10", "11", "12">>

\* C10: from a list of N traces and no labels the construction succeeds, the
\* set has N entries, the label str(i) is mapped to the i-th trace, and
\* itertraces yields ("0", t0), ..., ("N-1", tN-1) in this order, each once.
C10_DefaultLabels ==
    (ListCall /\ tset.labels_arg = None)
    => LET ts == tset.traces_arg.list
           expected == [k \in 1..Len(ts) |-> <<Numeral[k], ts[k]>>]
       IN  /\ tset.result = Ok
           /\ Len(tset.traces) = Len(ts)
           /\ \A k \in 1..Len(ts) : Lookup(tset.traces, Numeral[k]) = {ts[k]}
           /\ Called(iter)
                => /\ Len(iter.yielded) <= Len(expected)
                   /\ iter.yielded = SubSeq(expected, 1, Len(iter.yielded))
                   /\ iter.result = "exhausted" => iter.yielded = expected

\* An iteration over eleven default-labelled traces has ended after
\* yielding the label "10" last.
C10_Witness ==
    /\ ListCall /\ tset.labels_arg = None
    /\ Len(tset.traces_arg.list) = 11
    /\ Called(iter) /\ iter.result = "exhausted"
    /\ iter.yielded[11] = <<"10", [trace |-> 2]>>

DictCall == Called(tset) /\ "dict" \in DOMAIN tset.traces_arg

\* C11: given traces as a label-to-trace mapping, the construction never
\* fails, the set's traces are the mapping unchanged, a supplied label list
\* is not validated (whatever its length or duplicates), and a warning is
\* emitted iff a label list was supplied.
C11_DictPassThrough ==
    DictCall
    => /\ tset.result = Ok
       /\ tset.traces = tset.traces_arg.dict
       /\ tset.warnings = (IF tset.labels_arg # None THEN 1 ELSE 0)

\* A one-entry mapping was accepted together with a label list that is too
\* long and repeats a label, with one warning.
C11_Witness ==
    /\ DictCall
    /\ tset.traces_arg.dict = <<<<"a", [trace |-> 1]>>>>
    /\ tset.labels_arg # None /\ tset.labels_arg.list = <<"a", "a">>
    /\ tset.result = Ok /\ tset.warnings = 1
    /\ tset.traces = <<<<"a", [trace |-> 1]>>>>

(***************************************************************************)
(* Properties of the seasonal model.                                       *)
(***************************************************************************)
\* The calendar the model is configured with.
ConfiguredCalendar ==
    IF model.custom_holidays = None THEN UnitedStates
    ELSE model.custom_holidays.calendar

ExpectedNames(index) ==
    [k \in 1..Len(index) |-> clean_holiday_name(ConfiguredCalendar, index[k])]

\* C4: _patsy_formula returns the base formula followed, in this order, by
\* the month terms iff the index has at least 12 distinct months, the weekday
\* terms iff it has at least 7 distinct weekdays, and the holiday term iff
\* its holiday labels have exactly 11 distinct values.
C4_FormulaSelection ==
    (Called(call) /\ call.name = "patsy_formula")
    => /\ call.result = Ok
       /\ call.formula =
            "energy ~ 1 + CDD + HDD"
            \o (IF DistinctMonths(call.arg) >= 12
                THEN " + CDD * C(tempF.index.month) + HDD * C(tempF.index.month)"
                     \o " + C(tempF.index.month)"
                ELSE "")
            \o (IF DistinctWeekdays(call.arg) >= 7
                THEN " + (CDD) * C(tempF.index.weekday)"
                     \o " + (HDD) * C(tempF.index.weekday)"
                     \o " + C(tempF.index.weekday)"
                ELSE "")
            \o (IF DistinctNames(ExpectedNames(call.arg)) = 11
                THEN " + C(holiday_name)" ELSE "")

Complete(row) == row.energy # NaN /\ row.tempF # NaN

\* C5: the builder returns exactly the daily rows whose energy aggregate and
\* temperature aggregate are both defined, and fails with the
\* empty-model-data error, returning no table, when there is no such row.
C5_BuilderDropsIncompleteDays ==
    (Called(call) /\ call.name = "model_data_from_input_data")
    => LET complete == SelectSeq(call.resampled, Complete)
       IN  /\ call.result = (IF complete = <<>> THEN EmptyModelDataError ELSE Ok)
           /\ call.result = Ok => call.rows # <<>>
           /\ Len(call.rows) = Len(complete)
           /\ \A k \in 1..Len(complete) :
                /\ call.rows[k].day = complete[k].day
                /\ call.rows[k].energy = complete[k].energy
                /\ call.rows[k].tempF = complete[k].tempF
           /\ \A k \in 1..Len(call.rows) :
                \E j \in 1..Len(call.arg) :
                    call.arg[j].day = call.rows[k].day /\ call.arg[j].tempF # NaN

\* Readings on days 1 and 3 only: day 2 was resampled and dropped.
C5_Witness ==
    /\ Called(call) /\ call.name = "model_data_from_input_data"
    /\ call.result = Ok
    /\ Len(call.resampled) = 3
    /\ Len(call.rows) = 2 /\ call.rows[1].day = 1 /\ call.rows[2].day = 3

\* C6: _holidays_indexed returns one label per date of the index, in index
\* order: "none" for a date the configured calendar (the custom one if given,
\* the United States one otherwise) does not know, otherwise the calendar's
\* name without a trailing " (Observed)".
C6_HolidayLabels ==
    (Called(call) /\ call.name = "holidays_indexed")
    => /\ call.result = Ok
       /\ call.names = ExpectedNames(call.arg)

Greater(x, y) == x.num * y.den > y.num * x.den

\* C7: in every row the builder returns, CDD = max(tempF - cooling base, 0)
\* and HDD = max(heating base - tempF, 0), so neither is negative.
C7_DegreeDays ==
    (Called(call) /\ call.name = "model_data_from_input_data")
    => \A k \in 1..Len(call.rows) :
         LET row == call.rows[k] IN
         /\ row.CDD = (IF Greater(row.tempF, model.cooling_base_temp)
                       THEN Minus(row.tempF, model.cooling_base_temp)
                       ELSE Rat(0, 1))
         /\ row.HDD = (IF Greater(model.heating_base_temp, row.tempF)
                       THEN Minus(model.heating_base_temp, row.tempF)
                       ELSE Rat(0, 1))
         /\ row.CDD.num >= 0 /\ row.HDD.num >= 0

\* With both bases at 65: a day at 70 has CDD 5 and HDD 0, a day at 60 has
\* CDD 0 and HDD 5.
C7_Witness ==
    /\ Called(call) /\ call.name = "model_data_from_input_data"
    /\ model.cooling_base_temp = Rat(65, 1) /\ model.heating_base_temp = Rat(65, 1)
    /\ Len(call.rows) = 2
    /\ call.rows[1].tempF = Rat(70, 1)
    /\ call.rows[1].CDD = Rat(5, 1) /\ call.rows[1].HDD = Rat(0, 1)
    /\ call.rows[2].tempF = Rat(60, 1)
    /\ call.rows[2].CDD = Rat(0, 1) /\ call.rows[2].HDD = Rat(5, 1)

\* C12: for every temperature input, days without samples included, the
\* fixture builder returns a daily table without an energy column, with
\* CDD = max(tempF - cooling base, 0) and HDD = max(heating base - tempF, 0)
\* and a holiday_name on every row, and never fails with the
\* empty-model-data error.
C12_FixtureTable ==
    (Called(call) /\ call.name = "model_data_from_demand_fixture_data")
    => LET days == ResampleDays(call.arg)
           labels == ExpectedNames(days)
       IN  /\ call.result = Ok
           /\ Len(call.rows) = Len(days)
           /\ \A k \in 1..Len(call.rows) :
                LET row == call.rows[k] IN
                /\ DOMAIN row = {"day", "tempF", "CDD", "HDD", "holiday_name"}
                /\ row.day = days[k]
                /\ row.CDD = Max0(Minus(row.tempF, model.cooling_base_temp))
                /\ row.HDD = Max0(Minus(model.heating_base_temp, row.tempF))
                /\ row.holiday_name = labels[k]

====
